---- MODULE Spec2Model ----
(***************************************************************************)
(* Model of the RateLimitRedis engine (lib/index.js, ES-module variant,    *)
(* lines 77-377): process() and the store operations it awaits, run by     *)
(* several concurrent callers against one shared Redis store in which time *)
(* passes and keys expire.                                                 *)
(*                                                                         *)
(* JavaScript strings are sequences of one-character strings; the value    *)
(* undefined is the sequence UNDEF, which is no string of characters.      *)
(***************************************************************************)
EXTENDS Integers, Sequences, FiniteSets, TLC

(* ------------------------------------------------------------------ *)
(* Bounds of the model                                                *)
(* ------------------------------------------------------------------ *)

\* Number of process() calls that can be in flight at once (Spec).
NProcs == 3
\* Largest options.limit explored.
MaxLimit == 3
\* options.timeframe (seconds) of SpecLong: a window longer than 1000 s.
LongTimeframe == 1001
\* Saturation of the history counters admitted and prevRetry.
HistCap == 4
MaxConnects == 2
\* options.timeframe (seconds) of Spec and SpecSeq.
Timeframe == 1
\* limit and timeframe (seconds) of the custom route of the configuration.
StingyLimit == 2
StingyTimeframe == 2
\* options.limit of SpecLong.
LongLimit == 3

(* ------------------------------------------------------------------ *)
(* Program constants                                                  *)
(* ------------------------------------------------------------------ *)

\* options.limit || 100
DefaultLimit == 100
\* options.timeframe || 60
DefaultTimeframe == 60
\* res*1000, Math.ceil(ttl/1000): milliseconds in a second
MsPerSec == 1000
\* The clock of the model advances in steps of half a second.
TickMs == MsPerSec \div 2
\* TTL of a key that does not exist / of a key without expiry (Redis).
TtlNoKey == -2
TtlNoExpire == -1
\* A stored text that JSON.parse rejects, written as a number that is no
\* count
Malformed == TtlNoKey - 1

(* ------------------------------------------------------------------ *)
(* JavaScript values                                                  *)
(* ------------------------------------------------------------------ *)

UNDEF == <<"#undefined">>
\* `${x}` of undefined
UndefinedText == <<"u","n","d","e","f","i","n","e","d">>

Truthy(v) == v # UNDEF /\ v # <<>>
IsString(v) == v # UNDEF
Template(v) == IF v = UNDEF THEN UndefinedText ELSE v

LowerChar(c) ==
    CASE c = "G" -> "g"
      [] c = "E" -> "e"
      [] c = "T" -> "t"
      [] c = "P" -> "p"
      [] c = "O" -> "o"
      [] c = "S" -> "s"
      [] c = "A" -> "a"
      [] c = "B" -> "b"
      [] OTHER -> c

toLowerCase(s) == [i \in DOMAIN s |-> LowerChar(s[i])]

endsWithSlash(s) == Len(s) > 0 /\ s[Len(s)] = "/"

\* s.slice(0, -1)
sliceLast(s) == SubSeq(s, 1, Len(s) - 1)

\* Math.max(a, b), Math.ceil(a / b) for b > 0
Max(a, b) == IF a >= b THEN a ELSE b
Min(a, b) == IF a <= b THEN a ELSE b
CeilDiv(a, b) == IF a >= 0 THEN (a + b - 1) \div b ELSE -((-a) \div b)

\* Option values: <<>> is null, <<n>> is the number n.
Null == <<>>
Some(n) == <<n>>

(* ------------------------------------------------------------------ *)
(* Strings of the explored configuration and requests                 *)
(* ------------------------------------------------------------------ *)

DEFAULT_NAMESPACE == <<"r","a","t","e","-","l","i","m","i","t">>
Colon == <<":">>

\* getKey: ip || 'Invalid IP'
InvalidIp == <<"I","n","v","a","l","i","d"," ","I","P">>

ClientIp == <<"1">>
WhiteIp == <<"9">>

GetLower == <<"g","e","t">>
GetUpper == <<"G","E","T">>
PostLower == <<"p","o","s","t">>
PostUpper == <<"P","O","S","T">>

StingyPath == <<"/","a">>
StingyPathSlash == <<"/","a","/">>
IgnorePath == <<"/","b">>
IgnorePathSlash == <<"/","b","/">>
OtherPath == <<"/","c">>
UpperPath == <<"/","A">>

(* ------------------------------------------------------------------ *)
(* The Redis store: the commands the engine sends                     *)
(* A store maps the keys that exist to [val, left]: the integer stored *)
(* and the ticks left before expiry (NoExpire when the key has none).  *)
(* ------------------------------------------------------------------ *)

NoExpire == TtlNoExpire

TicksPerSec == MsPerSec \div TickMs

Exists(s, k) == k \in DOMAIN s

\* What the store holds under a key
Stored(s, k) == IF Exists(s, k) THEN Some(s[k]) ELSE Null

Remove(s, k) == [x \in DOMAIN s \ {k} |-> s[x]]

Put(s, k, e) == [x \in DOMAIN s \cup {k} |-> IF x = k THEN e ELSE s[x]]

\* DEL key: the store without the key, and the number of keys removed
RedisDel_kept(s, k) == s
RedisDel(s, k) == Remove(s, k)
RedisDelReply(s, k) == IF Exists(s, k) THEN 1 ELSE 0

\* GET key: the value, or null when the key does not exist
RedisGet(s, k) == IF Exists(s, k) THEN Some(s[k].val) ELSE Null

\* SET key v: stores v and discards any expiry the key had
RedisSet(s, k, v) == Put(s, k, [val |-> v, left |-> NoExpire])

\* EXPIRE key seconds: no effect on a missing key; deletes on seconds <= 0
RedisExpire(s, k, seconds) ==
    IF ~Exists(s, k) THEN s
    ELSE IF seconds <= 0 THEN Remove(s, k)
    ELSE Put(s, k, [val |-> s[k].val, left |-> seconds * TicksPerSec])

\* A variant that counts one request twice
RedisIncr_twice(s, k) ==
    IF Exists(s, k) THEN Put(s, k, [val |-> s[k].val + 2, left |-> s[k].left])
    ELSE Put(s, k, [val |-> 2, left |-> NoExpire])

\* INCR key: a missing key counts from 0 and gets no expiry; an expiry is kept
RedisIncr(s, k) ==
    IF Exists(s, k) THEN Put(s, k, [val |-> s[k].val + 1, left |-> s[k].left])
    ELSE Put(s, k, [val |-> 1, left |-> NoExpire])

\* What is left of a key with `left` ticks, in ms: strictly inside the tick.
LeftMs(left) == left * TickMs - TickMs \div 2

\* TTL key: -2 without key, -1 without expiry, else the time left rounded
\* to the nearest second (0 when less than half a second is left)
RedisTtl(s, k) ==
    IF ~Exists(s, k) THEN TtlNoKey
    ELSE IF s[k].left = NoExpire THEN TtlNoExpire
    ELSE (LeftMs(s[k].left) + MsPerSec \div 2) \div MsPerSec

\* PSETEX key ms v: stores v with an expiry of ms milliseconds
RedisPsetex(s, k, ms, v) == Put(s, k, [val |-> v, left |-> ms \div TickMs])

\* PTTL key: -2 without key, -1 without expiry, else the milliseconds left
RedisPttl(s, k) ==
    IF ~Exists(s, k) THEN TtlNoKey
    ELSE IF s[k].left = NoExpire THEN TtlNoExpire
    ELSE LeftMs(s[k].left)

\* Half a second passes: every expiry moves one tick, keys at 0 vanish
RedisTick(s) ==
    LET alive == {k \in DOMAIN s : s[k].left = NoExpire \/ s[k].left > 1}
    IN [k \in alive |->
          IF s[k].left = NoExpire THEN s[k]
          ELSE [val |-> s[k].val, left |-> s[k].left - 1]]

(* ------------------------------------------------------------------ *)
(* Pure parts of the engine                                           *)
(* ------------------------------------------------------------------ *)

\* constructor: this.limit = options.limit || 100
ctorLimit(optLimit) == IF optLimit = 0 THEN DefaultLimit ELSE optLimit

\* constructor: this.timeframe = options.timeframe || 60
ctorTimeframe(optTimeframe) ==
    IF optTimeframe = 0 THEN DefaultTimeframe ELSE optTimeframe

\* constructor: this.autoConnect = options.autoConnect || true (the option
\* is Null when it is not given)
ctorAutoConnect(optAutoConnect) ==
    IF optAutoConnect # <<>> /\ optAutoConnect[1] THEN optAutoConnect[1]
    ELSE TRUE

\* constructor: this.namespace = options.namespace || DEFAULT_NAMESPACE
ctorNamespace(optNamespace) ==
    IF Truthy(optNamespace) THEN optNamespace ELSE DEFAULT_NAMESPACE

\* getKey(ip, append) of an engine whose namespace is ns
getKey(ns, ip, append) ==
    LET ns0 == IF Truthy(ip) THEN ip ELSE <<"I","n","v","a","l","i","d"," ","I","P">>
        ns1 == IF Truthy(ns) /\ Len(ns) > 0
               THEN ns \o Colon \o Template(ip)
               ELSE ns0
    IN IF Truthy(append) /\ Len(append) > 0
       THEN ns1 \o Colon \o Template(append)
       ELSE ns1

\* getTimeLeft: res*1000 || defaultTime
getTimeLeft(res, defaultTime) ==
    IF res * MsPerSec = 0 THEN defaultTime ELSE res * MsPerSec

\* the route as find's callback leaves it: a missing method becomes 'get'
defaultMethod(route) ==
    IF "method" \in DOMAIN route THEN route
    ELSE [f \in DOMAIN route \cup {"method"} |->
            IF f = "method" THEN GetLower ELSE route[f]]

\* Variants of the callback's parts below
reqPathOf_raw(request) ==
    IF Truthy(request.url) THEN request.url ELSE request.originalUrl
sameMethod_any(route, request) == TRUE
sameMethod_exact(route, request) ==
    /\ IsString(route.method)
    /\ IsString(request.method)
    /\ route.method = request.method
appendOf_none(route) == UNDEF
appendOf_asis(route) == route.method \o Colon \o route.path
samePath_missing(route, request) ==
    LET raw == IF Truthy(request.url) THEN request.url ELSE request.originalUrl
        reqPath == IF Truthy(raw) /\ endsWithSlash(raw)
                   THEN sliceLast(raw) ELSE raw
    IN ~Truthy(raw) \/ route.path = reqPath
samePath_both(route, request) ==
    LET raw == IF Truthy(request.url) THEN request.url ELSE request.originalUrl
        reqPath == IF Truthy(raw) /\ endsWithSlash(raw)
                   THEN sliceLast(raw) ELSE raw
        rulePath == IF endsWithSlash(route.path)
                    THEN sliceLast(route.path) ELSE route.path
    IN Truthy(raw) /\ rulePath = reqPath
whitelisted_never(wl, request) == FALSE

\* reqPath of find's callback: request.url || request.originalUrl, the
\* trailing slash removed
reqPathOf(request) ==
    LET raw == IF Truthy(request.url) THEN request.url ELSE request.originalUrl
    IN IF Truthy(raw) /\ endsWithSlash(raw) THEN sliceLast(raw) ELSE raw

\* samePath of find's callback
samePath(route, request) ==
    LET reqPath == reqPathOf(request)
        raw == IF Truthy(request.url) THEN request.url ELSE request.originalUrl
    IN Truthy(raw) /\ route.path = reqPath

\* sameMethod of find's callback
sameMethod(route, request) ==
    /\ IsString(route.method)
    /\ IsString(request.method)
    /\ toLowerCase(route.method) = toLowerCase(request.method)

\* find's callback, applied to a route whose method is set
routeMatches(route, request) ==
    samePath(route, request) /\ sameMethod(route, request)

\* A variant that returns the last route that matches
findCustom_last(routes, request) ==
    LET hits == {i \in DOMAIN routes : routeMatches(defaultMethod(routes[i]), request)}
    IN IF hits = {} THEN 0 ELSE CHOOSE i \in hits : \A j \in hits : i >= j

\* Index of the route customRoutes.find returns, 0 when there is none
findCustom(routes, request) ==
    LET hits == {i \in DOMAIN routes : routeMatches(defaultMethod(routes[i]), request)}
    IN IF hits = {} THEN 0 ELSE CHOOSE i \in hits : \A j \in hits : i <= j

\* A variant that writes another method than the callback compares with
visitedRoutes_post(routes, request) ==
    [i \in DOMAIN routes |->
        IF "method" \in DOMAIN routes[i] THEN routes[i]
        ELSE [f \in DOMAIN routes[i] \cup {"method"} |->
                IF f = "method" THEN PostLower ELSE routes[i][f]]]

\* customRoutes after find: every route the callback visited has a method
visitedRoutes(routes, request) ==
    LET hit == findCustom(routes, request)
        upto == IF hit = 0 THEN Len(routes) ELSE hit
    IN [i \in DOMAIN routes |->
          IF i <= upto THEN defaultMethod(routes[i]) ELSE routes[i]]

\* append of a matched route: `${method.toLowerCase()}:${path.toLowerCase()}`
appendOf(route) ==
    toLowerCase(route.method) \o Colon \o toLowerCase(route.path)

whitelisted(wl, request) == wl # {} /\ request.ip \in wl

(* ------------------------------------------------------------------ *)
(* State                                                              *)
(* ------------------------------------------------------------------ *)

VARIABLES
    \* the options the constructor was given
    options,
    \* the engine's fields, set by the constructor
    limit, timeframe, namespace, whitelist, customRoutes, autoConnect,
    \* the engine's store client: whether it is open, and how often
    \* process() has called connect()
    isOpen, connects,
    \* a second engine built with the same options on the same store: its
    \* customRoutes and whether its client is open
    peer,
    \* what the middleware did with the call that settled last
    handled,
    \* the shared Redis store
    store,
    \* per call of process(): where it is suspended, and its locals
    pc, req, key, lim, tf, requestCount, response,
    \* the record of the call that settled in the last step (Null when
    \* the last step settled none)
    result,
    \* history of the watched key (not read by the engine)
    hist

config == <<options, limit, timeframe, namespace, whitelist, autoConnect>>
client == <<isOpen, connects>>
beside == <<peer, handled>>
locals == <<pc, req, key, lim, tf, requestCount, response>>
vars == <<options, limit, timeframe, namespace, whitelist, customRoutes,
          autoConnect, isOpen, connects, peer, handled, store,
          pc, req, key, lim, tf, requestCount, response, result, hist>>

Procs == 1 .. NProcs

\* A request descriptor: the fields process() reads
Request(ip, url, originalUrl, method) ==
    [ip |-> ip, url |-> url, originalUrl |-> originalUrl, method |-> method]

NoRequest == Request(UNDEF, UNDEF, UNDEF, UNDEF)
NoResponse == [status |-> 0]

\* The record of a call that settles with response r
Settled(p, r) ==
    Some([request |-> req[p], key |-> key[p], response |-> r,
          read |-> requestCount[p], limit |-> lim[p], timeframe |-> tf[p]])

\* The locals of call p are dropped
Idle(p) ==
    /\ pc' = [pc EXCEPT ![p] = "idle"]
    /\ req' = [req EXCEPT ![p] = NoRequest]
    /\ key' = [key EXCEPT ![p] = UNDEF]
    /\ lim' = [lim EXCEPT ![p] = 0]
    /\ tf' = [tf EXCEPT ![p] = 0]
    /\ requestCount' = [requestCount EXCEPT ![p] = 0]
    /\ response' = [response EXCEPT ![p] = NoResponse]

(* ------------------------------------------------------------------ *)
(* process(request): one action per stretch between two awaits        *)
(* ------------------------------------------------------------------ *)

\* Variants of the branches below
remainingOf_count(l, count) == count
recreates_never(ttl) == FALSE
retryOf_ms(ttl) == ttl
atLimit_above(count, l) == count > l
firstRemaining_whole(l) == l

\* What a call that throws settles with
Thrown(e) == [thrown |-> e]

\* JSON.parse(res) of getRequestCount returns: null and the texts of
\* numbers parse
parses(res) == IF res = Null THEN TRUE ELSE res[1] # Malformed

\* if (!requestCount): null and 0 both start a new window
noCount(res) == res = Null \/ res[1] = 0

\* response.remaining = Math.max(limit - requestCount, 0)
remainingOf(l, count) == Max(l - count, 0)

\* if (requestCount >= limit)
atLimit(count, l) == count >= l

\* response.remaining = limit - 1, after setNewRequestCount
firstRemaining(l) == l - 1

\* response.retry = Math.ceil(ttl/1000)
retryOf(ttl) == CeilDiv(ttl, MsPerSec)

\* if (ttl <= 0): TRUE when the window is recreated, FALSE when the
\* request is rejected
recreates(ttl) == ttl <= 0

\* What process() decides before its first store command: "bare" (the
\* whitelist or an ignored route answers), or the key, limit and timeframe
\* the request is counted under
resolve(ns, wl, routes, defLimit, defTimeframe, request) ==
    LET hit == IF Len(routes) > 0 THEN findCustom(routes, request) ELSE 0
        custom == defaultMethod(routes[hit])
    IN IF whitelisted(wl, request)
       THEN [kind |-> "bare", key |-> getKey(ns, request.ip, UNDEF),
             limit |-> defLimit, timeframe |-> defTimeframe]
       ELSE IF hit = 0
       THEN [kind |-> "counted", key |-> getKey(ns, request.ip, UNDEF),
             limit |-> defLimit, timeframe |-> defTimeframe]
       ELSE IF "ignore" \in DOMAIN custom /\ custom.ignore
       THEN [kind |-> "bare", key |-> getKey(ns, request.ip, UNDEF),
             limit |-> defLimit, timeframe |-> defTimeframe]
       ELSE [kind |-> "counted",
             key |-> getKey(ns, request.ip, appendOf(custom)),
             limit |-> IF "limit" \in DOMAIN custom
                       THEN custom.limit ELSE defLimit,
             timeframe |-> IF "timeframe" \in DOMAIN custom
                           THEN custom.timeframe ELSE defTimeframe]

\* customRoutes after the lookup of process(): untouched when the whitelist
\* answers or there are no routes
routesAfter(wl, routes, request) ==
    IF ~whitelisted(wl, request) /\ Len(routes) > 0
    THEN visitedRoutes(routes, request)
    ELSE routes

\* process() of an engine whose customRoutes are routes, from the whitelist
\* to the first store command: whitelist, custom routes, key
BeginWith(p, request, routes) ==
    /\ pc[p] = "idle"
    /\ LET r == resolve(namespace, whitelist, routes, limit, timeframe,
                        request)
       IN IF r.kind = "bare"
          THEN /\ result' = Some([request |-> request, key |-> r.key,
                                  response |-> [status |-> 200],
                                  read |-> 0, limit |-> r.limit,
                                  timeframe |-> r.timeframe])
               /\ UNCHANGED locals
          ELSE /\ pc' = [pc EXCEPT ![p] = "get"]
               /\ req' = [req EXCEPT ![p] = request]
               /\ key' = [key EXCEPT ![p] = r.key]
               /\ lim' = [lim EXCEPT ![p] = r.limit]
               /\ tf' = [tf EXCEPT ![p] = r.timeframe]
               /\ response' = [response EXCEPT ![p] =
                     [status |-> 200, limit |-> r.limit,
                      timeframe |-> r.timeframe]]
               /\ result' = Null
               /\ UNCHANGED requestCount
    /\ UNCHANGED <<config, store, handled>>

\* process(), up to the first await: connect when the client is not open
\* and autoConnect is set, then whitelist, custom routes, key
ProcessBegin(p, request) ==
    /\ isOpen' = (isOpen \/ autoConnect)
    /\ connects' = IF ~isOpen /\ autoConnect THEN connects + 1 ELSE connects
    /\ BeginWith(p, request, customRoutes)
    /\ customRoutes' = routesAfter(whitelist, customRoutes, request)
    /\ UNCHANGED peer

\* process() of the second engine, up to the first await
PeerBegin(p, request) ==
    /\ peer' = [customRoutes |->
                    routesAfter(whitelist, peer.customRoutes, request),
                isOpen |-> (peer.isOpen \/ autoConnect)]
    /\ BeginWith(p, request, peer.customRoutes)
    /\ UNCHANGED <<customRoutes, client>>

\* requestCount = await getRequestCount(key); the branch on it. JSON.parse
\* throws on a text that is no JSON, and process() rejects with that error
ProcessGetRequestCount(p) ==
    /\ pc[p] = "get"
    /\ LET res == RedisGet(store, key[p])
           count == IF res = Null THEN 0 ELSE res[1]
       IN IF ~parses(res)
          THEN /\ result' = Settled(p, Thrown("parse"))
               /\ Idle(p)
          ELSE IF noCount(res)
          THEN /\ pc' = [pc EXCEPT ![p] = "set"]
               /\ result' = Null
               /\ UNCHANGED <<requestCount, response, req, key, lim, tf>>
          ELSE /\ requestCount' = [requestCount EXCEPT ![p] = count + 1]
               /\ response' = [response EXCEPT ![p] =
                     [status |-> 200, limit |-> lim[p], timeframe |-> tf[p],
                      remaining |-> remainingOf(lim[p], count + 1)]]
               /\ pc' = [pc EXCEPT ![p] =
                     IF atLimit(count + 1, lim[p]) THEN "ttl" ELSE "incr"]
               /\ result' = Null
               /\ UNCHANGED <<req, key, lim, tf>>
    /\ UNCHANGED <<config, client, beside, customRoutes, store>>

\* setNewRequestCount: let res = await this.redisClient.set(key, 1)
ProcessSet(p) ==
    /\ pc[p] \in {"set", "fallbackSet"}
    /\ store' = RedisSet(store, key[p], 1)
    /\ pc' = [pc EXCEPT ![p] =
          IF pc[p] = "set" THEN "expire" ELSE "fallbackExpire"]
    /\ result' = Null
    /\ UNCHANGED <<config, client, beside, customRoutes, req, key, lim, tf, requestCount,
                   response>>

\* setNewRequestCount: await this.redisClient.expire(key, timeframe); then
\* process() sets remaining = limit - 1 and returns (after the fallback of
\* incrementRequestCount it returns the response as it is)
ProcessExpire(p) ==
    /\ pc[p] \in {"expire", "fallbackExpire"}
    /\ LET seconds == IF pc[p] = "expire" THEN tf[p] ELSE timeframe
           r == IF pc[p] = "expire"
                THEN [status |-> 200, limit |-> lim[p], timeframe |-> tf[p],
                      remaining |-> firstRemaining(lim[p])]
                ELSE response[p]
       IN /\ store' = RedisExpire(store, key[p], seconds)
          /\ result' = Settled(p, r)
    /\ Idle(p)
    /\ UNCHANGED <<config, client, beside, customRoutes>>

\* A variant whose rejection counts the rejected request
ProcessGetTimeLeft_counting(p) ==
    /\ pc[p] = "ttl"
    /\ LET ttl == getTimeLeft(RedisTtl(store, key[p]), tf[p])
           r == [status |-> 429, limit |-> lim[p], timeframe |-> tf[p],
                 remaining |-> response[p].remaining,
                 retry |-> retryOf(ttl),
                 error |-> "Too Many Requests"]
       IN IF recreates(ttl)
          THEN /\ pc' = [pc EXCEPT ![p] = "set"]
               /\ result' = Null
               /\ store' = store
               /\ UNCHANGED <<req, key, lim, tf, requestCount, response>>
          ELSE /\ result' = Settled(p, r)
               /\ store' = RedisIncr(store, key[p])
               /\ Idle(p)
    /\ UNCHANGED <<config, client, beside, customRoutes>>

\* ttl = await getTimeLeft(key, timeframe); recreate the window or reject
ProcessGetTimeLeft(p) ==
    /\ pc[p] = "ttl"
    /\ LET ttl == getTimeLeft(RedisTtl(store, key[p]), tf[p])
           r == [status |-> 429, limit |-> lim[p], timeframe |-> tf[p],
                 remaining |-> response[p].remaining,
                 retry |-> retryOf(ttl),
                 error |-> "Too Many Requests"]
       IN IF recreates(ttl)
          THEN /\ pc' = [pc EXCEPT ![p] = "set"]
               /\ result' = Null
               /\ UNCHANGED <<req, key, lim, tf, requestCount, response>>
          ELSE /\ result' = Settled(p, r)
               /\ Idle(p)
    /\ UNCHANGED <<config, client, beside, customRoutes, store>>

\* await incrementRequestCount(key); return response. INCR of a value that
\* is no integer is an error of the store, and process() rejects with it
ProcessIncrement(p) ==
    /\ pc[p] = "incr"
    /\ IF ~parses(RedisGet(store, key[p]))
       THEN /\ result' = Settled(p, Thrown("store"))
            /\ Idle(p)
            /\ UNCHANGED store
       ELSE LET res == RedisIncr(store, key[p])[key[p]].val
            IN /\ store' = RedisIncr(store, key[p])
               /\ IF res = 0
                  THEN /\ pc' = [pc EXCEPT ![p] = "fallbackSet"]
                       /\ result' = Null
                       /\ UNCHANGED <<req, key, lim, tf, requestCount,
                                      response>>
                  ELSE /\ result' = Settled(p, response[p])
                       /\ Idle(p)
    /\ UNCHANGED <<config, client, beside, customRoutes>>

\* const {headers = true} = options: the default stands in for an option
\* that is left out
headersOf(opts) ==
    IF "headers" \in DOMAIN opts /\ opts.headers # Null
    THEN opts.headers[1]
    ELSE TRUE

\* result.name: undefined when the result has no such property
prop(r, name) == IF name \in DOMAIN r THEN Some(r[name]) ELSE UNDEF

\* A variant that answers a failure of process() as a rejected request
reactionOf_closed(hdrs, r) ==
    IF "thrown" \in DOMAIN r
    THEN [status |-> 429, next |-> "plain", headers |-> Null, calls |-> 1]
    ELSE [status |-> r.status, next |-> "plain", calls |-> 1,
          headers |-> IF hdrs
                      THEN Some([limit |-> prop(r, "limit"),
                                 remaining |-> prop(r, "remaining"),
                                 retry |-> prop(r, "retry")])
                      ELSE Null]

\* The middleware's reactions to the promise of process(req):
\* .then(result => { if (headers) { res.set(...) x 3 }
\* res.status(result.status); next(); }).catch(next). The record holds the
\* status set on the response (0: none), the three headers set (Null:
\* none), how next was called ("plain" with no argument, "error" with the
\* error) and how often
reactionOf(hdrs, r) ==
    IF "thrown" \in DOMAIN r
    THEN [status |-> 0, next |-> "error", headers |-> Null, calls |-> 1]
    ELSE [status |-> r.status, next |-> "plain", calls |-> 1,
          headers |-> IF hdrs
                      THEN Some([limit |-> prop(r, "limit"),
                                 remaining |-> prop(r, "remaining"),
                                 retry |-> prop(r, "retry")])
                      ELSE Null]

\* The promise of process(req) has settled: the middleware reacts
MiddlewareThen ==
    /\ result # Null
    /\ result[1].request # NoRequest
    /\ handled' = Some(reactionOf(headersOf(options), result[1].response))
    /\ result' = Null
    /\ UNCHANGED <<config, client, peer, customRoutes, store, locals>>

\* connect(), called by the application: redisClient.connect()
Connect ==
    /\ ~isOpen
    /\ isOpen' = TRUE
    /\ result' = Null
    /\ UNCHANGED <<config, connects, beside, customRoutes, store, locals>>

\* disconnect(), called by the application: redisClient.disconnect()
Disconnect ==
    /\ isOpen
    /\ connects < MaxConnects
    /\ isOpen' = FALSE
    /\ result' = Null
    /\ UNCHANGED <<config, connects, beside, customRoutes, store, locals>>

\* What a store operation called by the application settles with
Answer(k, r) ==
    Some([request |-> NoRequest, key |-> k, response |-> r,
          read |-> 0, limit |-> 0, timeframe |-> 0])

\* if (!key) throw new Error('Invalid key'): undefined and '' are no keys
validKey(k) == Truthy(k)

\* A store operation called by the application with key k: the test of the
\* key, then the commands on the client, which leave the store as `after`
\* and let the operation return `returned`. A client that is not open
\* rejects the command
Operation(k, after, returned) ==
    /\ IF ~validKey(k)
       THEN /\ store' = store
            /\ result' = Answer(k, Thrown("key"))
       ELSE IF ~isOpen
       THEN /\ store' = store
            /\ result' = Answer(k, Thrown("store"))
       ELSE /\ store' = after
            /\ result' = Answer(k, returned)
    /\ UNCHANGED <<config, client, beside, customRoutes, locals>>

\* reset(key): res = await redisClient.del(key); return res === 1
Reset(k) ==
    Operation(k, RedisDel(store, k), [reset |-> RedisDelReply(store, k) = 1])

\* getTimeLeft(key): res = await redisClient.ttl(key); return res*1000 ||
\* defaultTime, with the engine's timeframe as defaultTime
GetTimeLeft(k) ==
    Operation(k, store,
              [timeLeft |-> getTimeLeft(RedisTtl(store, k), timeframe)])

\* setNewRequestCount(key): set(key, 1), expire(key, this.timeframe),
\* return res === 'OK'; called while no other command is in flight
SetNewRequestCount(k) ==
    Operation(k, RedisExpire(RedisSet(store, k, 1), k, timeframe),
              [created |-> TRUE])

\* getRequestCount(key): res = await redisClient.get(key); return
\* JSON.parse(res)
GetRequestCount(k) ==
    Operation(k, store,
              IF parses(RedisGet(store, k))
              THEN [count |-> RedisGet(store, k)]
              ELSE Thrown("parse"))

\* incrementRequestCount(key): res = await redisClient.incr(key); if (!res)
\* return this.setNewRequestCount(key); return res. The count is kept
\* within the counts process() can produce
IncrementRequestCount(k) ==
    LET incremented == RedisIncr(store, k)
        res == incremented[k].val
    IN /\ Exists(store, k) => store[k].val <= MaxLimit
       /\ IF ~parses(RedisGet(store, k))
          THEN Operation(k, store, Thrown("store"))
          ELSE IF res = 0
          THEN Operation(k, RedisExpire(RedisSet(incremented, k, 1), k,
                                        timeframe),
                         [created |-> TRUE])
          ELSE Operation(k, incremented, [count |-> Some(res)])

\* Another client of the store writes a text that is no JSON under the key
ForeignSet(k) ==
    /\ store' = RedisSet(store, k, Malformed)
    /\ result' = Null
    /\ UNCHANGED <<config, client, beside, customRoutes, locals>>

\* A store command of the call is rejected (the connection is lost): no
\* await of process() is inside a try, so process() rejects with the
\* client's error and sends no further command
StoreFails(p) ==
    /\ pc[p] # "idle"
    /\ result' = Settled(p, Thrown("store"))
    /\ Idle(p)
    /\ UNCHANGED <<config, client, beside, customRoutes, store>>

\* Half a second passes in the store
Tick ==
    /\ store' = RedisTick(store)
    /\ result' = Null
    /\ UNCHANGED <<config, client, beside, customRoutes, locals>>

\* rateLimitRedis(options) of lib/index.mjs called once more by the
\* application: global.rateLimitRedis = new RateLimitRedis(options). The
\* middleware returned before reads the engine from the same global on
\* every request, so the fields it works with are those of the new engine,
\* whose client is not open yet; options stays what that middleware was
\* created with. The number of connections is kept within MaxConnects
rateLimitRedis(opts) ==
    /\ connects < MaxConnects
    /\ limit' = ctorLimit(opts.limit)
    /\ timeframe' = ctorTimeframe(opts.timeframe)
    /\ namespace' = ctorNamespace(opts.namespace)
    /\ whitelist' = opts.whitelist
    /\ customRoutes' = opts.customRoutes
    /\ autoConnect' = ctorAutoConnect(opts.autoConnect)
    /\ isOpen' = FALSE
    /\ result' = Null
    /\ UNCHANGED <<options, connects, beside, store, locals>>

(* ------------------------------------------------------------------ *)
(* The engine of lib/rate_limit_redis.js, which the CommonJS           *)
(* middleware requires: callbacks wrapped in promises, one PSETEX to   *)
(* create a count, PTTL for the time left, no test of the key. Its     *)
(* client connects when it is created.                                 *)
(* ------------------------------------------------------------------ *)

\* Another client of the store writes the integer v under the key
ForeignWrite(k, v) ==
    /\ store' = RedisSet(store, k, v)
    /\ result' = Null
    /\ UNCHANGED <<config, client, beside, customRoutes, locals>>

\* getTimeLeft of that engine: resolve(res || defaultTime)
legacyTimeLeft(res, defaultTime) == IF res = 0 THEN defaultTime ELSE res

\* process() of that engine up to the first await, for an engine that has
\* no custom routes: whitelist, key, limit and timeframe
LegacyBegin(p, request) ==
    /\ customRoutes = << >>
    /\ BeginWith(p, request, << >>)
    /\ UNCHANGED <<client, peer, customRoutes>>

\* try { requestCount = await getRequestCount(key) } catch { requestCount
\* = null }; the branch on it
LegacyGet(p) ==
    /\ pc[p] = "get"
    /\ LET res == RedisGet(store, key[p])
           count == IF ~parses(res) \/ res = Null THEN 0 ELSE res[1]
       IN IF count = 0
          THEN /\ pc' = [pc EXCEPT ![p] = "psetex"]
               /\ UNCHANGED <<requestCount, response>>
          ELSE /\ requestCount' = [requestCount EXCEPT ![p] = count + 1]
               /\ response' = [response EXCEPT ![p] =
                     [status |-> 200, limit |-> lim[p], timeframe |-> tf[p],
                      remaining |-> Max(lim[p] - (count + 1), 0)]]
               /\ pc' = [pc EXCEPT ![p] =
                     IF count + 1 >= lim[p] THEN "ttl" ELSE "incr"]
    /\ result' = Null
    /\ UNCHANGED <<config, client, beside, customRoutes, store, req, key,
                   lim, tf>>

\* await setNewRequestCount(key, timeframe): psetex(key, timeframe*1000, 1);
\* response.remaining = limit - 1; resolve
LegacyCreate(p) ==
    /\ pc[p] = "psetex"
    /\ store' = RedisPsetex(store, key[p], tf[p] * MsPerSec, 1)
    /\ result' = Settled(p, [status |-> 200, limit |-> lim[p],
                             timeframe |-> tf[p], remaining |-> lim[p] - 1])
    /\ Idle(p)
    /\ UNCHANGED <<config, client, beside, customRoutes>>

\* ttl = await getTimeLeft(key, timeframe): pttl; recreate or reject
LegacyTtl(p) ==
    /\ pc[p] = "ttl"
    /\ LET ttl == legacyTimeLeft(RedisPttl(store, key[p]), tf[p])
       IN IF ttl <= 0
          THEN /\ pc' = [pc EXCEPT ![p] = "psetex"]
               /\ result' = Null
               /\ UNCHANGED <<req, key, lim, tf, requestCount, response>>
          ELSE /\ result' = Settled(p,
                     [status |-> 429, limit |-> lim[p], timeframe |-> tf[p],
                      remaining |-> response[p].remaining,
                      retry |-> CeilDiv(ttl, MsPerSec),
                      error |-> "Too Many Requests"])
               /\ Idle(p)
    /\ UNCHANGED <<config, client, beside, customRoutes, store>>

\* await incrementRequestCount(key): incr, and in its callback
\* if (err) return reject(err); if (!res) return this.setNewRequestCount(
\* key); return resolve(res)
LegacyIncrement(p) ==
    /\ pc[p] = "incr"
    /\ IF ~parses(RedisGet(store, key[p]))
       THEN /\ result' = Settled(p, Thrown("store"))
            /\ Idle(p)
            /\ UNCHANGED store
       ELSE LET res == RedisIncr(store, key[p])[key[p]].val
            IN /\ store' = RedisIncr(store, key[p])
               /\ IF res = 0
                  THEN /\ pc' = [pc EXCEPT ![p] = "fallback"]
                       /\ result' = Null
                       /\ UNCHANGED <<req, key, lim, tf, requestCount,
                                      response>>
                  ELSE /\ result' = Settled(p, response[p])
                       /\ Idle(p)
    /\ UNCHANGED <<config, client, beside, customRoutes>>

\* The setNewRequestCount(key) called from the callback of incr: its
\* promise is returned to the client library, and neither resolve nor
\* reject of the promise that process() awaits is ever called
LegacyFallback(p) ==
    /\ pc[p] = "fallback"
    /\ store' = RedisPsetex(store, key[p], timeframe * MsPerSec, 1)
    /\ pc' = [pc EXCEPT ![p] = "hung"]
    /\ result' = Null
    /\ UNCHANGED <<config, client, beside, customRoutes, req, key, lim, tf,
                   requestCount, response>>

\* A store operation of that engine called by the application: the
\* command is sent with the key as it is
LegacyOperation(k, after, returned) ==
    /\ store' = after
    /\ result' = returned
    /\ UNCHANGED <<config, client, beside, customRoutes, locals>>

LegacySetNewRequestCount(k) ==
    LegacyOperation(k, RedisPsetex(store, k, timeframe * MsPerSec, 1),
                    Answer(k, [created |-> TRUE]))

LegacyGetRequestCount(k) ==
    LegacyOperation(k, store,
                    Answer(k, IF parses(RedisGet(store, k))
                              THEN [count |-> RedisGet(store, k)]
                              ELSE Thrown("parse")))

\* The promise stays pending when incr reports a falsy value
LegacyIncrementRequestCount(k) ==
    LET incremented == RedisIncr(store, k)
        res == incremented[k].val
    IN /\ Exists(store, k) => store[k].val <= MaxLimit
       /\ IF ~parses(RedisGet(store, k))
          THEN LegacyOperation(k, store, Answer(k, Thrown("store")))
          ELSE IF res = 0
          THEN LegacyOperation(k, RedisPsetex(incremented, k,
                                              timeframe * MsPerSec, 1),
                               Null)
          ELSE LegacyOperation(k, incremented,
                               Answer(k, [count |-> Some(res)]))

LegacyGetTimeLeft(k) ==
    LegacyOperation(k, store,
                    Answer(k, [timeLeft |->
                        legacyTimeLeft(RedisPttl(store, k), timeframe)]))

LegacyReset(k) ==
    LegacyOperation(k, RedisDel(store, k),
                    Answer(k, [reset |-> RedisDelReply(store, k) = 1]))

(* ------------------------------------------------------------------ *)
(* History of the watched key, kept beside the engine's steps.         *)
(*   age        ticks since the key was created or its expiry set       *)
(*              (saturating at the window's length)                     *)
(*   calls      calls that read the key since it was last read absent   *)
(*   tainted    the run had overlapping calls, or the key expired       *)
(*              under a call that had read it                           *)
(*   due        the call in flight read the key absent or older than    *)
(*              its window                                              *)
(*   admitted   calls settled with 200 since the window was created     *)
(*   lastRetry, lastVal   retry of the window's latest rejection and    *)
(*              the count stored then (0 when none)                     *)
(*   prevRetry, prevVal   the same, before the call that just settled   *)
(*   rejected   a call was rejected and none was admitted since         *)
(*   relieved   the call that just settled was admitted after a         *)
(*              rejection                                               *)
(*   wrote      the call in flight, or the one that just settled, has   *)
(*              changed the watched key                                 *)
(* ------------------------------------------------------------------ *)

NoHist == [age |-> 0, calls |-> 0, tainted |-> FALSE, due |-> FALSE,
           admitted |-> 0, lastRetry |-> 0, lastVal |-> 0,
           prevRetry |-> 0, prevVal |-> 0,
           rejected |-> FALSE, relieved |-> FALSE, wrote |-> FALSE,
           credited |-> 0, commands |-> 0]

\* The key of the plain request of the watched client
WatchedKey == getKey(namespace, ClientIp, UNDEF)

ReadBy(p) == pc[p] = "get" /\ pc'[p] # "get" /\ key[p] = WatchedKey
SetBy(p) ==
    pc[p] \in {"set", "fallbackSet"} /\ pc'[p] # pc[p] /\ key[p] = WatchedKey
ExpireBy(p) ==
    pc[p] \in {"expire", "fallbackExpire"} /\ pc'[p] # pc[p] /\ key[p] = WatchedKey
IncrBy(p) == pc[p] = "incr" /\ pc'[p] # "incr" /\ key[p] = WatchedKey
Reading == \E p \in Procs : ReadBy(p)
Created ==
    \E p \in Procs : SetBy(p) \/ (IncrBy(p) /\ ~Exists(store, WatchedKey))
Armed == \E p \in Procs : ExpireBy(p)
Expired == Exists(store, WatchedKey) /\ ~Exists(store', WatchedKey)
Ticked == pc' = pc /\ result' = Null
Overlap == Cardinality({p \in Procs : pc'[p] # "idle" /\ key'[p] = WatchedKey}) > 1
HeldOpen ==
    \E p \in Procs : pc[p] \notin {"idle", "get"} /\ key[p] = WatchedKey
SettledCounted ==
    /\ result' # Null
    /\ result'[1].key = WatchedKey
    /\ "remaining" \in DOMAIN result'[1].response
Quiet == result' = Null /\ \A p \in Procs : pc'[p] = "idle"

WindowTicks == timeframe * TicksPerSec

\* SpecSeq: the run of calls inside the window of the watched key
ObsWindow ==
    hist' = [hist EXCEPT
        !.age = IF Created \/ Armed THEN 0
                ELSE IF ~Ticked THEN @
                ELSE IF Exists(store', WatchedKey)
                THEN Min(@ + 1, WindowTicks) ELSE 0,
        !.calls = IF Reading
                  THEN (IF Exists(store, WatchedKey)
                        THEN Min(@ + 1, MaxLimit + 1) ELSE 1)
                  ELSE IF Expired /\ ~HeldOpen THEN 0 ELSE @,
        !.tainted = IF Reading
                    THEN (Exists(store, WatchedKey) /\ @) \/ Overlap
                    ELSE IF Expired THEN HeldOpen ELSE @,
        !.due = IF Reading
                THEN ~Exists(store, WatchedKey) \/ hist.age >= WindowTicks
                ELSE IF Quiet THEN FALSE ELSE @]

\* Spec: the calls admitted in the window of the watched key
ObsAdmitted ==
    LET ok == SettledCounted /\ result'[1].response.status = 200
    IN hist' = [hist EXCEPT
        !.admitted = IF Created \/ Expired THEN (IF ok THEN 1 ELSE 0)
                     ELSE IF ok THEN Min(@ + 1, HistCap) ELSE @]

\* SpecLong: the rejections in the window of the watched key
ObsRetry ==
    LET rejected == SettledCounted /\ result'[1].response.status = 429
    IN hist' = [hist EXCEPT
        !.lastRetry = IF Created \/ Expired THEN 0
                      ELSE IF rejected
                      THEN Min(result'[1].response.retry, HistCap) ELSE @,
        !.lastVal = IF Created \/ Expired THEN 0
                    ELSE IF rejected THEN store'[WatchedKey].val ELSE @,
        !.prevRetry = IF SettledCounted /\ ~Created THEN hist.lastRetry ELSE 0,
        !.prevVal = IF SettledCounted /\ ~Created THEN hist.lastVal ELSE 0]

\* SpecFair: rejections of the watched key and the admissions after them
ObsRejected ==
    LET ok == SettledCounted /\ result'[1].response.status = 200
        no == SettledCounted /\ result'[1].response.status = 429
    IN hist' = [hist EXCEPT
        !.rejected = IF no THEN TRUE ELSE IF ok THEN FALSE ELSE @,
        !.relieved = ok /\ hist.rejected]

\* SpecReset: due, the watched key was reset and no call has settled
\* since; tainted, that reset deleted a key; relieved, the call that
\* settled last was the first one after a reset that deleted a key
ObsReset ==
    hist' = IF result' = Null
            THEN hist
            ELSE IF "reset" \in DOMAIN result'[1].response
            THEN [hist EXCEPT !.due = TRUE,
                              !.tainted = result'[1].response.reset,
                              !.relieved = FALSE]
            ELSE [hist EXCEPT !.due = FALSE,
                              !.tainted = FALSE,
                              !.relieved = hist.due /\ hist.tainted]

\* SpecCredit: the requests the watched key has been charged with since it
\* was last created; a request is charged when its call sends the command
\* that counts it (the SET of a create, or the INCR)
ObsCredit ==
    hist' = [hist EXCEPT
        !.credited = IF Created THEN 1
                     ELSE IF Expired THEN 0
                     ELSE IF \E p \in Procs : IncrBy(p) THEN @ + 1
                     ELSE @]

\* SpecCommands: the store commands the call in flight has sent
ObsCommands ==
    hist' = [hist EXCEPT
        !.commands = IF \E p \in Procs : pc[p] = "idle" /\ pc'[p] # "idle"
                     THEN 0
                     ELSE IF \E p \in Procs : pc[p] # "idle" /\ pc'[p] # pc[p]
                     THEN @ + 1
                     ELSE @]

\* SpecFail: whether the call has written to the watched key
ObsWrote ==
    hist' = [hist EXCEPT
        !.wrote = IF \E p \in Procs : pc[p] = "idle" /\ pc'[p] # "idle"
                  THEN FALSE
                  ELSE IF \E p \in Procs : SetBy(p) \/ ExpireBy(p) \/ IncrBy(p)
                  THEN @ \/ Stored(store', WatchedKey) # Stored(store, WatchedKey)
                  ELSE @]

(* ------------------------------------------------------------------ *)
(* Configurations, requests and specifications                        *)
(* ------------------------------------------------------------------ *)

\* options.customRoutes: a counted route with its own limit and timeframe,
\* and an ignored route without method
TheRoutes ==
    << [path |-> StingyPath, method |-> PostUpper,
        timeframe |-> StingyTimeframe, limit |-> StingyLimit],
       [path |-> IgnorePath, ignore |-> TRUE] >>

\* new RateLimitRedis(opts), and a second engine built with the same
\* options; nothing is stored yet and no client is open
New(opts) ==
    /\ options = opts
    /\ limit = ctorLimit(opts.limit)
    /\ timeframe = ctorTimeframe(opts.timeframe)
    /\ namespace = ctorNamespace(opts.namespace)
    /\ whitelist = opts.whitelist
    /\ customRoutes = opts.customRoutes
    /\ autoConnect = ctorAutoConnect(opts.autoConnect)
    /\ isOpen = FALSE
    /\ connects = 0
    /\ peer = [customRoutes |-> opts.customRoutes, isOpen |-> FALSE]
    /\ handled = Null
    /\ store = << >>
    /\ pc = [p \in Procs |-> "idle"]
    /\ req = [p \in Procs |-> NoRequest]
    /\ key = [p \in Procs |-> UNDEF]
    /\ lim = [p \in Procs |-> 0]
    /\ tf = [p \in Procs |-> 0]
    /\ requestCount = [p \in Procs |-> 0]
    /\ response = [p \in Procs |-> NoResponse]
    /\ result = Null
    /\ hist = NoHist

\* The options of the tests: limit, timeframe and customRoutes given, the
\* address WhiteIp whitelisted, namespace and autoConnect left out
Constructed(optLimit, optTimeframe, optRoutes) ==
    New([limit |-> optLimit, timeframe |-> optTimeframe,
         namespace |-> UNDEF, whitelist |-> {WhiteIp},
         customRoutes |-> optRoutes, autoConnect |-> Null])

\* The request of the tests: an address and nothing else
PlainRequest == Request(ClientIp, UNDEF, UNDEF, UNDEF)

Urls == {StingyPath, StingyPathSlash, IgnorePath, IgnorePathSlash, OtherPath}
Methods == {UNDEF, GetLower, GetUpper, PostLower, PostUpper}

\* Requests with a path: (ip, url, originalUrl, method)
RouteRequests ==
    {Request(ClientIp, u, UNDEF, m) : u \in Urls, m \in Methods}
    \cup {Request(ClientIp, UNDEF, u, m) :
             u \in {StingyPathSlash, IgnorePath}, m \in {GetLower, PostLower}}
    \cup {Request(WhiteIp, u, UNDEF, m) :
             u \in {UNDEF, StingyPath, IgnorePath}, m \in {GetLower, PostLower}}

NoneInFlight == \A q \in Procs : pc[q] = "idle"

\* Spec: NProcs concurrent calls of one client on the default route
Init == \E l \in 1 .. MaxLimit : Constructed(l, Timeframe, << >>)

Next ==
    \/ \E p \in Procs : ProcessBegin(p, PlainRequest) /\ ObsAdmitted
    \/ \E p \in Procs : ProcessGetRequestCount(p) /\ ObsAdmitted
    \/ \E p \in Procs : ProcessSet(p) /\ ObsAdmitted
    \/ \E p \in Procs : ProcessExpire(p) /\ ObsAdmitted
    \/ \E p \in Procs : ProcessGetTimeLeft(p) /\ ObsAdmitted
    \/ \E p \in Procs : ProcessIncrement(p) /\ ObsAdmitted
    \/ Tick /\ ObsAdmitted

Spec == Init /\ [][Next]_vars

\* SpecSeq: one call at a time of one client on the default route
NextSeq ==
    \/ NoneInFlight /\ ProcessBegin(1, PlainRequest) /\ ObsWindow
    \/ ProcessGetRequestCount(1) /\ ObsWindow
    \/ ProcessSet(1) /\ ObsWindow
    \/ ProcessExpire(1) /\ ObsWindow
    \/ ProcessGetTimeLeft(1) /\ ObsWindow
    \/ ProcessIncrement(1) /\ ObsWindow
    \/ Tick /\ ObsWindow

SpecSeq == Init /\ [][NextSeq]_vars

\* SpecRoutes: one call at a time, every kind of request, custom routes
InitRoutes == \E l \in 1 .. MaxLimit : Constructed(l, Timeframe, TheRoutes)

NextRoutes ==
    \/ \E r \in RouteRequests \cup {PlainRequest} :
          NoneInFlight /\ ProcessBegin(1, r) /\ UNCHANGED hist
    \/ ProcessGetRequestCount(1) /\ UNCHANGED hist
    \/ ProcessSet(1) /\ UNCHANGED hist
    \/ ProcessExpire(1) /\ UNCHANGED hist
    \/ ProcessGetTimeLeft(1) /\ UNCHANGED hist
    \/ ProcessIncrement(1) /\ UNCHANGED hist
    \/ Tick /\ UNCHANGED hist

SpecRoutes == InitRoutes /\ [][NextRoutes]_vars

\* SpecLong: one call at a time on the default route, a window of more
\* than 1000 seconds
InitLong == Constructed(LongLimit, LongTimeframe, << >>)

NextLong ==
    \/ NoneInFlight /\ ProcessBegin(1, PlainRequest) /\ ObsRetry
    \/ ProcessGetRequestCount(1) /\ ObsRetry
    \/ ProcessSet(1) /\ ObsRetry
    \/ ProcessExpire(1) /\ ObsRetry
    \/ ProcessGetTimeLeft(1) /\ ObsRetry
    \/ ProcessIncrement(1) /\ ObsRetry
    \/ Tick /\ ObsRetry

SpecLong == InitLong /\ [][NextLong]_vars

\* SpecFair: two concurrent callers of one client on the default route;
\* time passes, every call in flight gets its store replies, and calls
\* keep being made
FairProcs == {p \in Procs : p <= 2}

NextFair ==
    \/ \E p \in FairProcs : ProcessBegin(p, PlainRequest) /\ ObsRejected
    \/ \E p \in FairProcs : ProcessGetRequestCount(p) /\ ObsRejected
    \/ \E p \in FairProcs : ProcessSet(p) /\ ObsRejected
    \/ \E p \in FairProcs : ProcessExpire(p) /\ ObsRejected
    \/ \E p \in FairProcs : ProcessGetTimeLeft(p) /\ ObsRejected
    \/ \E p \in FairProcs : ProcessIncrement(p) /\ ObsRejected
    \/ Tick /\ ObsRejected

Replied(p) ==
    \/ ProcessGetRequestCount(p)
    \/ ProcessSet(p)
    \/ ProcessExpire(p)
    \/ ProcessGetTimeLeft(p)
    \/ ProcessIncrement(p)

SpecFair ==
    /\ Init
    /\ [][NextFair]_vars
    /\ WF_vars(Tick /\ ObsRejected)
    /\ WF_vars(\E p \in FairProcs : ProcessBegin(p, PlainRequest) /\ ObsRejected)
    /\ \A p \in FairProcs : WF_vars(Replied(p) /\ ObsRejected)

\* SpecFail: one call at a time on the default route; any store command
\* may fail
NextFail ==
    \/ NoneInFlight /\ ProcessBegin(1, PlainRequest) /\ ObsWrote
    \/ ProcessGetRequestCount(1) /\ ObsWrote
    \/ ProcessSet(1) /\ ObsWrote
    \/ ProcessExpire(1) /\ ObsWrote
    \/ ProcessGetTimeLeft(1) /\ ObsWrote
    \/ ProcessIncrement(1) /\ ObsWrote
    \/ StoreFails(1) /\ ObsWrote
    \/ Tick /\ ObsWrote

SpecFail == Init /\ [][NextFail]_vars

\* SpecForeign: one call at a time on the default route; at any time
\* another client may overwrite the key with a text that is no JSON
NextForeign ==
    \/ NoneInFlight /\ ProcessBegin(1, PlainRequest) /\ ObsWrote
    \/ ProcessGetRequestCount(1) /\ ObsWrote
    \/ ProcessSet(1) /\ ObsWrote
    \/ ProcessExpire(1) /\ ObsWrote
    \/ ProcessGetTimeLeft(1) /\ ObsWrote
    \/ ProcessIncrement(1) /\ ObsWrote
    \/ ForeignSet(WatchedKey) /\ ObsWrote
    \/ Tick /\ ObsWrote

SpecForeign == Init /\ [][NextForeign]_vars

\* SpecPeers: one call at a time, sent to either of two engines that were
\* built with the same options and share the store
PeerRequests ==
    {Request(ClientIp, u, UNDEF, m) :
        u \in {StingyPath, IgnorePath, IgnorePathSlash},
        m \in {UNDEF, GetUpper, PostLower}}

NextPeers ==
    \/ \E r \in PeerRequests :
          NoneInFlight /\ ProcessBegin(1, r) /\ UNCHANGED hist
    \/ \E r \in PeerRequests :
          NoneInFlight /\ PeerBegin(1, r) /\ UNCHANGED hist
    \/ ProcessGetRequestCount(1) /\ UNCHANGED hist
    \/ ProcessSet(1) /\ UNCHANGED hist
    \/ ProcessExpire(1) /\ UNCHANGED hist
    \/ ProcessGetTimeLeft(1) /\ UNCHANGED hist
    \/ ProcessIncrement(1) /\ UNCHANGED hist
    \/ Tick /\ UNCHANGED hist

SpecPeers == InitRoutes /\ [][NextPeers]_vars

\* SpecKeys: the calls of SpecRoutes on an engine whose namespace option is
\* left out, empty, or a text
OtherNamespace == <<"n","s">>

InitKeys ==
    \E ns \in {UNDEF, <<>>, OtherNamespace} :
        New([limit |-> MaxLimit, timeframe |-> Timeframe, namespace |-> ns,
             whitelist |-> {WhiteIp}, customRoutes |-> TheRoutes,
             autoConnect |-> Null])

SpecKeys == InitKeys /\ [][NextRoutes]_vars

\* SpecFrame: the calls of three callers for one client on the default
\* route, interleaved in every way, with no history kept
FrameProcs == {p \in Procs : p <= 3}

NextFrame ==
    \/ \E p \in FrameProcs : ProcessBegin(p, PlainRequest) /\ UNCHANGED hist
    \/ \E p \in FrameProcs : ProcessGetRequestCount(p) /\ UNCHANGED hist
    \/ \E p \in FrameProcs : ProcessSet(p) /\ UNCHANGED hist
    \/ \E p \in FrameProcs : ProcessExpire(p) /\ UNCHANGED hist
    \/ \E p \in FrameProcs : ProcessGetTimeLeft(p) /\ UNCHANGED hist
    \/ \E p \in FrameProcs : ProcessIncrement(p) /\ UNCHANGED hist
    \/ Tick /\ UNCHANGED hist

SpecFrame == Init /\ [][NextFrame]_vars

\* SpecReset: one call at a time on the default route; between calls the
\* key may be reset
NextReset ==
    \/ NoneInFlight /\ ProcessBegin(1, PlainRequest) /\ ObsReset
    \/ ProcessGetRequestCount(1) /\ ObsReset
    \/ ProcessSet(1) /\ ObsReset
    \/ ProcessExpire(1) /\ ObsReset
    \/ ProcessGetTimeLeft(1) /\ ObsReset
    \/ ProcessIncrement(1) /\ ObsReset
    \/ NoneInFlight /\ Reset(WatchedKey) /\ ObsReset
    \/ Tick /\ ObsReset

SpecReset == Init /\ [][NextReset]_vars

\* SpecConnect: engines built with autoConnect left out, true and false;
\* the application connects and disconnects the client between calls
InitConnect ==
    \E a \in {Null, Some(TRUE), Some(FALSE)} :
        New([limit |-> MaxLimit, timeframe |-> Timeframe,
             namespace |-> UNDEF, whitelist |-> {WhiteIp},
             customRoutes |-> << >>, autoConnect |-> a])

NextConnect ==
    \/ NoneInFlight /\ ProcessBegin(1, PlainRequest) /\ UNCHANGED hist
    \/ ProcessGetRequestCount(1) /\ UNCHANGED hist
    \/ ProcessSet(1) /\ UNCHANGED hist
    \/ ProcessExpire(1) /\ UNCHANGED hist
    \/ ProcessGetTimeLeft(1) /\ UNCHANGED hist
    \/ ProcessIncrement(1) /\ UNCHANGED hist
    \/ NoneInFlight /\ Connect /\ UNCHANGED hist
    \/ NoneInFlight /\ Disconnect /\ UNCHANGED hist
    \/ Tick /\ UNCHANGED hist

SpecConnect == InitConnect /\ [][NextConnect]_vars

\* SpecMiddleware: the engine behind its middleware, one request at a
\* time; a settled promise runs its reaction before anything else, and the
\* store may fail a command
NextMiddleware ==
    \/ result = Null /\ NoneInFlight /\ ProcessBegin(1, PlainRequest)
                     /\ UNCHANGED hist
    \/ result = Null /\ ProcessGetRequestCount(1) /\ UNCHANGED hist
    \/ result = Null /\ ProcessSet(1) /\ UNCHANGED hist
    \/ result = Null /\ ProcessExpire(1) /\ UNCHANGED hist
    \/ result = Null /\ ProcessGetTimeLeft(1) /\ UNCHANGED hist
    \/ result = Null /\ ProcessIncrement(1) /\ UNCHANGED hist
    \/ result = Null /\ StoreFails(1) /\ UNCHANGED hist
    \/ MiddlewareThen /\ UNCHANGED hist
    \/ result = Null /\ Tick /\ UNCHANGED hist

SpecMiddleware == Init /\ [][NextMiddleware]_vars

\* SpecOps: one call at a time on the default route; between two store
\* commands of a call and between calls the application asks for the time
\* left of the key
NextOps ==
    \/ NoneInFlight /\ ProcessBegin(1, PlainRequest) /\ UNCHANGED hist
    \/ ProcessGetRequestCount(1) /\ UNCHANGED hist
    \/ ProcessSet(1) /\ UNCHANGED hist
    \/ ProcessExpire(1) /\ UNCHANGED hist
    \/ ProcessGetTimeLeft(1) /\ UNCHANGED hist
    \/ ProcessIncrement(1) /\ UNCHANGED hist
    \/ GetTimeLeft(WatchedKey) /\ UNCHANGED hist
    \/ Tick /\ UNCHANGED hist

SpecOps == Init /\ [][NextOps]_vars

\* SpecSlash: one call at a time on an engine whose counted rule is
\* configured with a path that ends in a slash
SlashRoutes ==
    << [path |-> StingyPathSlash, method |-> PostUpper,
        timeframe |-> StingyTimeframe, limit |-> StingyLimit],
       [path |-> IgnorePath, ignore |-> TRUE] >>

SlashRequests ==
    {Request(ClientIp, u, UNDEF, m) :
        u \in {StingyPath, StingyPathSlash, IgnorePath, IgnorePathSlash},
        m \in {GetLower, PostLower}}

InitSlash == Constructed(MaxLimit, Timeframe, SlashRoutes)

NextSlash ==
    \/ \E r \in SlashRequests :
          NoneInFlight /\ ProcessBegin(1, r) /\ UNCHANGED hist
    \/ ProcessGetRequestCount(1) /\ UNCHANGED hist
    \/ ProcessSet(1) /\ UNCHANGED hist
    \/ ProcessExpire(1) /\ UNCHANGED hist
    \/ ProcessGetTimeLeft(1) /\ UNCHANGED hist
    \/ ProcessIncrement(1) /\ UNCHANGED hist
    \/ Tick /\ UNCHANGED hist

SpecSlash == InitSlash /\ [][NextSlash]_vars

\* SpecAnon: one call at a time on the engines of SpecKeys; some requests
\* carry no client address
AnonRequests ==
    { Request(UNDEF, OtherPath, UNDEF, GetLower),
      Request(UNDEF, StingyPath, UNDEF, PostLower),
      Request(ClientIp, OtherPath, UNDEF, GetLower) }

NextAnon ==
    \/ \E r \in AnonRequests :
          NoneInFlight /\ ProcessBegin(1, r) /\ UNCHANGED hist
    \/ ProcessGetRequestCount(1) /\ UNCHANGED hist
    \/ ProcessSet(1) /\ UNCHANGED hist
    \/ ProcessExpire(1) /\ UNCHANGED hist
    \/ ProcessGetTimeLeft(1) /\ UNCHANGED hist
    \/ ProcessIncrement(1) /\ UNCHANGED hist
    \/ Tick /\ UNCHANGED hist

SpecAnon == InitKeys /\ [][NextAnon]_vars

\* SpecRules: one call at a time on an engine whose rules overlap and leave
\* out limit, timeframe or method; some requests carry no path
RuleRoutes ==
    << [path |-> StingyPath, method |-> PostUpper, limit |-> StingyLimit],
       [path |-> StingyPath, method |-> PostLower, ignore |-> TRUE],
       [path |-> IgnorePath, ignore |-> TRUE],
       [path |-> IgnorePath, method |-> GetUpper,
        timeframe |-> StingyTimeframe, limit |-> StingyLimit],
       [path |-> UpperPath, timeframe |-> StingyTimeframe] >>

RuleRequests ==
    { Request(ClientIp, StingyPath, UNDEF, PostLower),
      Request(ClientIp, IgnorePath, UNDEF, GetLower),
      Request(ClientIp, UpperPath, UNDEF, GetUpper),
      Request(ClientIp, OtherPath, UNDEF, GetLower),
      Request(ClientIp, UNDEF, UNDEF, GetLower),
      Request(ClientIp, UNDEF, UNDEF, PostUpper),
      PlainRequest }

InitRules == Constructed(MaxLimit, Timeframe, RuleRoutes)

NextRules ==
    \/ \E r \in RuleRequests :
          NoneInFlight /\ ProcessBegin(1, r) /\ UNCHANGED hist
    \/ ProcessGetRequestCount(1) /\ UNCHANGED hist
    \/ ProcessSet(1) /\ UNCHANGED hist
    \/ ProcessExpire(1) /\ UNCHANGED hist
    \/ ProcessGetTimeLeft(1) /\ UNCHANGED hist
    \/ ProcessIncrement(1) /\ UNCHANGED hist
    \/ Tick /\ UNCHANGED hist

SpecRules == InitRules /\ [][NextRules]_vars

\* SpecCredit: the calls of three callers for one client on the default
\* route, interleaved in every way, with the charges of the key recorded
NextCredit ==
    \/ \E p \in FrameProcs : ProcessBegin(p, PlainRequest) /\ ObsCredit
    \/ \E p \in FrameProcs : ProcessGetRequestCount(p) /\ ObsCredit
    \/ \E p \in FrameProcs : ProcessSet(p) /\ ObsCredit
    \/ \E p \in FrameProcs : ProcessExpire(p) /\ ObsCredit
    \/ \E p \in FrameProcs : ProcessGetTimeLeft(p) /\ ObsCredit
    \/ \E p \in FrameProcs : ProcessIncrement(p) /\ ObsCredit
    \/ Tick /\ ObsCredit

SpecCredit == Init /\ [][NextCredit]_vars

\* SpecCommands: one call at a time, on the default route and on the
\* counted rule, with the commands of the call counted
CommandRequests ==
    {PlainRequest, Request(ClientIp, StingyPath, UNDEF, PostLower)}

NextCommands ==
    \/ \E r \in CommandRequests :
          NoneInFlight /\ ProcessBegin(1, r) /\ ObsCommands
    \/ ProcessGetRequestCount(1) /\ ObsCommands
    \/ ProcessSet(1) /\ ObsCommands
    \/ ProcessExpire(1) /\ ObsCommands
    \/ ProcessGetTimeLeft(1) /\ ObsCommands
    \/ ProcessIncrement(1) /\ ObsCommands
    \/ Tick /\ ObsCommands

SpecCommands == InitRoutes /\ [][NextCommands]_vars

\* SpecCalls: the application connects and calls the five store operations
\* one after the other, with the key of the client, with no key and with the
\* empty key
OpKeys == {UNDEF, << >>, WatchedKey}

NextCalls ==
    \/ Connect /\ UNCHANGED hist
    \/ \E k \in OpKeys : SetNewRequestCount(k) /\ UNCHANGED hist
    \/ \E k \in OpKeys : GetRequestCount(k) /\ UNCHANGED hist
    \/ \E k \in OpKeys : IncrementRequestCount(k) /\ UNCHANGED hist
    \/ \E k \in OpKeys : GetTimeLeft(k) /\ UNCHANGED hist
    \/ \E k \in OpKeys : Reset(k) /\ UNCHANGED hist
    \/ Tick /\ UNCHANGED hist

SpecCalls == Init /\ [][NextCalls]_vars

\* SpecLegacy: two callers of the engine of lib/rate_limit_redis.js on the
\* default route, and another client of the store that writes -1 under
\* their key. The store answers every command: each step of a call that
\* is under way is taken eventually
NextLegacy ==
    \/ \E p \in FairProcs : LegacyBegin(p, PlainRequest) /\ UNCHANGED hist
    \/ \E p \in FairProcs : LegacyGet(p) /\ UNCHANGED hist
    \/ \E p \in FairProcs : LegacyCreate(p) /\ UNCHANGED hist
    \/ \E p \in FairProcs : LegacyTtl(p) /\ UNCHANGED hist
    \/ \E p \in FairProcs : LegacyIncrement(p) /\ UNCHANGED hist
    \/ \E p \in FairProcs : LegacyFallback(p) /\ UNCHANGED hist
    \/ ForeignWrite(WatchedKey, -1) /\ UNCHANGED hist
    \/ Tick /\ UNCHANGED hist

LegacyReplied(p) ==
    \/ LegacyGet(p)
    \/ LegacyCreate(p)
    \/ LegacyTtl(p)
    \/ LegacyIncrement(p)
    \/ LegacyFallback(p)

SpecLegacy ==
    /\ Init
    /\ [][NextLegacy]_vars
    /\ \A p \in FairProcs : WF_vars(LegacyReplied(p) /\ UNCHANGED hist)

\* SpecLegacyCalls: the application calls the five store operations of the
\* engine of lib/rate_limit_redis.js, with the key of the client and with
\* the empty key
LegacyKeys == {<< >>, WatchedKey}

NextLegacyCalls ==
    \/ \E k \in LegacyKeys : LegacySetNewRequestCount(k) /\ UNCHANGED hist
    \/ \E k \in LegacyKeys : LegacyGetRequestCount(k) /\ UNCHANGED hist
    \/ \E k \in LegacyKeys : LegacyIncrementRequestCount(k) /\ UNCHANGED hist
    \/ \E k \in LegacyKeys : LegacyGetTimeLeft(k) /\ UNCHANGED hist
    \/ \E k \in LegacyKeys : LegacyReset(k) /\ UNCHANGED hist
    \/ Tick /\ UNCHANGED hist

SpecLegacyCalls == Init /\ [][NextLegacyCalls]_vars

\* SpecHeaders: the middleware in front of one call at a time, with the
\* headers option on, off and left out; requests of the client and of the
\* whitelisted address; any store command may fail
HeaderRequests == {PlainRequest, Request(WhiteIp, UNDEF, UNDEF, UNDEF)}

InitHeaders ==
    \E l \in 1 .. MaxLimit : \E h \in {Null, Some(TRUE), Some(FALSE)} :
        New([limit |-> l, timeframe |-> Timeframe, namespace |-> UNDEF,
             whitelist |-> {WhiteIp}, customRoutes |-> << >>,
             autoConnect |-> Null, headers |-> h])

NextHeaders ==
    \/ \E r \in HeaderRequests :
          result = Null /\ NoneInFlight /\ ProcessBegin(1, r)
                        /\ UNCHANGED hist
    \/ result = Null /\ ProcessGetRequestCount(1) /\ UNCHANGED hist
    \/ result = Null /\ ProcessSet(1) /\ UNCHANGED hist
    \/ result = Null /\ ProcessExpire(1) /\ UNCHANGED hist
    \/ result = Null /\ ProcessGetTimeLeft(1) /\ UNCHANGED hist
    \/ result = Null /\ ProcessIncrement(1) /\ UNCHANGED hist
    \/ result = Null /\ StoreFails(1) /\ UNCHANGED hist
    \/ MiddlewareThen /\ UNCHANGED hist
    \/ result = Null /\ Tick /\ UNCHANGED hist

SpecHeaders == InitHeaders /\ [][NextHeaders]_vars

\* SpecFactory: one call at a time through the middleware that
\* rateLimitRedis(options) returned first, while the application creates
\* further middlewares with other options
OtherOptions ==
    {[limit |-> l, timeframe |-> StingyTimeframe, namespace |-> UNDEF,
      whitelist |-> {}, customRoutes |-> << >>, autoConnect |-> Null] :
        l \in 1 .. MaxLimit}

NextFactory ==
    \/ NoneInFlight /\ ProcessBegin(1, PlainRequest) /\ UNCHANGED hist
    \/ ProcessGetRequestCount(1) /\ UNCHANGED hist
    \/ ProcessSet(1) /\ UNCHANGED hist
    \/ ProcessExpire(1) /\ UNCHANGED hist
    \/ ProcessGetTimeLeft(1) /\ UNCHANGED hist
    \/ ProcessIncrement(1) /\ UNCHANGED hist
    \/ \E o \in OtherOptions :
          NoneInFlight /\ rateLimitRedis(o) /\ UNCHANGED hist
    \/ Tick /\ UNCHANGED hist

SpecFactory == Init /\ [][NextFactory]_vars

(* ------------------------------------------------------------------ *)
(* Properties                                                         *)
(* ------------------------------------------------------------------ *)

\* The call that settled in the last step was counted (it was answered by
\* neither the whitelist nor an ignored route)
Counted == result # Null /\ "remaining" \in DOMAIN result[1].response

\* The call that settled in the last step, in a run of calls that never
\* straddled the end of a window
CleanCall == Counted /\ ~hist.tainted /\ hist.calls <= limit

\* C1, as stated: in a sequential run inside one window on a key that had
\* no live window, the i-th call gets 200 with remaining = limit - i while
\* i < limit, and 429 with remaining 0 once i >= limit.
C1_AsStated ==
    CleanCall =>
        LET i == hist.calls
            r == result[1].response
        IN IF i < limit
           THEN r.status = 200 /\ r.remaining = limit - i
           ELSE r.status = 429 /\ r.remaining = 0

\* C1, amended: the first call of the run always gets 200 with
\* remaining = limit - 1 (also when limit = 1); a later i-th call gets 200
\* with remaining = limit - i while i < limit, and 429 with remaining 0
\* once i >= limit.
C1_Sequential ==
    CleanCall =>
        LET i == hist.calls
            r == result[1].response
        IN IF i = 1 \/ i < limit
           THEN r.status = 200 /\ r.remaining = limit - i
           ELSE r.status = 429 /\ r.remaining = 0

\* The last call of a clean run of MaxLimit calls is rejected
C1_Witness ==
    /\ CleanCall
    /\ limit = MaxLimit
    /\ hist.calls = limit
    /\ result[1].response.status = 429

\* C2: a counted call that reads no count for its key gets 200 with
\* remaining = limit - 1 and neither retry nor error, and leaves the key
\* stored with count 1.
C2_FirstCall ==
    (Counted /\ result[1].read = 0) =>
        /\ result[1].response =
              [status |-> 200, limit |-> result[1].limit,
               timeframe |-> result[1].timeframe,
               remaining |-> result[1].limit - 1]
        /\ Exists(store, result[1].key)
        /\ store[result[1].key].val = 1

\* A first call under the route's own key has settled
C2_Witness ==
    /\ Counted
    /\ result[1].read = 0
    /\ result[1].key # getKey(namespace, ClientIp, UNDEF)
    /\ result[1].limit = StingyLimit

\* What a sequential run admits in one window
SequentialAdmits == Max(limit - 1, 1)

\* C3, as stated: whatever the interleaving of concurrent calls on one key,
\* the calls admitted with 200 in one window exceed what a sequential run
\* admits by at most one, and never exceed the limit.
C3_AdmittedWithinLimit ==
    /\ hist.admitted <= SequentialAdmits + 1
    /\ hist.admitted <= limit

\* C4, as stated: once the window's duration has passed since it was
\* created, the next counted call gets 200 with remaining = limit - 1,
\* whatever happened before.
C4_FreshAfterWindow ==
    (Counted /\ hist.due) =>
        /\ result[1].response.status = 200
        /\ result[1].response.remaining = limit - 1

\* C5, as stated: after a rejection, every further call in the same window
\* is rejected with remaining 0, the stored count stays as it was, and the
\* retry value is no larger than the one before.
C5_RejectedStaysRejected ==
    (Counted /\ hist.prevRetry # 0) =>
        /\ result[1].response.status = 429
        /\ result[1].response.remaining = 0
        /\ Exists(store, WatchedKey)
        /\ store[WatchedKey].val = hist.prevVal
        /\ (hist.prevRetry < HistCap =>
                result[1].response.retry <= hist.prevRetry)

Stripped(path) == IF endsWithSlash(path) THEN sliceLast(path) ELSE path

Applies(rule, request) ==
    LET path == IF Truthy(request.url) THEN request.url
                ELSE request.originalUrl
        method == IF "method" \in DOMAIN rule THEN rule.method ELSE GetUpper
    IN /\ Truthy(path)
       /\ IsString(request.method)
       /\ Stripped(rule.path) = Stripped(path)
       /\ toLowerCase(method) = toLowerCase(request.method)

IgnoreRule(rule) == "ignore" \in DOMAIN rule /\ rule.ignore

\* The request matches a rule that is ignored / a rule that is counted
Ignored(request) ==
    \E i \in DOMAIN customRoutes :
        Applies(customRoutes[i], request) /\ IgnoreRule(customRoutes[i])

Overriding(request) ==
    \E i \in DOMAIN customRoutes :
        Applies(customRoutes[i], request) /\ ~IgnoreRule(customRoutes[i])

\* The keys of the watched client, written out
BaseKey == <<"r","a","t","e","-","l","i","m","i","t",":","1">>
StingyKey == BaseKey \o <<":","p","o","s","t",":","/","a">>

\* C7: a request from a whitelisted address is never taken into counting:
\* its call settles at once with status 200 and no other field, and leaves
\* the store as it was.
C7_Whitelisted ==
    [][ /\ \A p \in Procs : req'[p].ip \notin whitelist
        /\ (result' # Null /\ result'[1].request.ip \in whitelist) =>
              /\ result'[1].response = [status |-> 200]
              /\ store' = store ]_vars

\* A whitelisted request was answered while the store held counters
C7_Witness ==
    /\ result # Null
    /\ result[1].request.ip \in whitelist
    /\ result[1].request.url = StingyPath
    /\ Exists(store, BaseKey)
    /\ Exists(store, StingyKey)

\* C8: a request that matches a rule with ignore = true is never counted:
\* its call settles at once with status 200 and no other field, and leaves
\* the store (base key and override key alike) as it was.
C8_Ignored ==
    [][ /\ \A p \in Procs : ~Ignored(req'[p])
        /\ (result' # Null /\ Ignored(result'[1].request)) =>
              /\ result'[1].response = [status |-> 200]
              /\ store' = store ]_vars

\* An ignored request of the watched client was answered while its base
\* key was stored
C8_Witness ==
    /\ result # Null
    /\ result[1].request.ip = ClientIp
    /\ result[1].request.url = IgnorePathSlash
    /\ Ignored(result[1].request)
    /\ Exists(store, BaseKey)

\* C9: a request that matches a counted rule is counted under a key that
\* differs from the client's base key, with the rule's limit and timeframe;
\* its call never changes the base key, a call on the default route never
\* changes the rule's key, and a rejection is decided by the call's own
\* limit.
C9_OverrideIndependent ==
    [][ \A p \in Procs :
          (pc[p] # "idle" /\ pc'[p] # pc[p] /\ req[p].ip = ClientIp) =>
             /\ IF Overriding(req[p])
                THEN /\ key[p] = StingyKey
                     /\ key[p] # BaseKey
                     /\ lim[p] = StingyLimit
                     /\ tf[p] = StingyTimeframe
                     /\ Stored(store', BaseKey) = Stored(store, BaseKey)
                ELSE /\ key[p] = BaseKey
                     /\ lim[p] = limit
                     /\ tf[p] = timeframe
                     /\ Stored(store', StingyKey) = Stored(store, StingyKey)
             /\ result' # Null =>
                   /\ result'[1].response.limit = lim[p]
                   /\ result'[1].response.timeframe = tf[p]
                   /\ result'[1].response.status = 429 =>
                         result'[1].read >= lim[p] ]_vars

\* A call under the rule's key was rejected while the base key held another
\* count
C9_Witness ==
    /\ Counted
    /\ result[1].key = StingyKey
    /\ result[1].response.status = 429
    /\ Exists(store, BaseKey)
    /\ Exists(store, StingyKey)
    /\ store[BaseKey].val > store[StingyKey].val

Failed == result # Null /\ "thrown" \in DOMAIN result[1].response

\* C12, as stated: when a store command of process() fails, process()
\* fails with an error, returns neither 200 nor 429, and has not recreated
\* or reset the window for that request.
C12_FailsWithoutReset ==
    (Failed /\ result[1].response = Thrown("store")) =>
        /\ "status" \notin DOMAIN result[1].response
        /\ ~hist.wrote

\* C13, as stated: a stored value that does not parse as an integer is
\* taken as absent: the call that reads it does not fail but goes on to
\* recreate the window, and then returns 200 with remaining = limit - 1.
C13_MalformedIsAbsent ==
    [][ \A p \in Procs :
          ( /\ pc[p] = "get"
            /\ pc'[p] # "get"
            /\ Exists(store, key[p])
            /\ store[key[p]].val = Malformed ) =>
               /\ pc'[p] = "set"
               /\ result' = Null ]_vars

\* C14: every result of process() has one of three shapes: status 200 and
\* nothing else (exactly for a whitelisted or ignored request); status 200
\* with limit, timeframe and remaining, without retry and error; status 429
\* with limit, timeframe, remaining = 0, retry and error. So retry and
\* error are present exactly when the status is 429.
C14_ResultShapes ==
    result # Null =>
        LET r == result[1].response
            exempt == \/ result[1].request.ip \in whitelist
                      \/ Ignored(result[1].request)
        IN /\ r.status \in {200, 429}
           /\ exempt <=> r = [status |-> 200]
           /\ (~exempt /\ r.status = 200) =>
                 DOMAIN r = {"status", "limit", "timeframe", "remaining"}
           /\ r.status = 429 =>
                 /\ DOMAIN r = {"status", "limit", "timeframe", "remaining",
                                "retry", "error"}
                 /\ r.remaining = 0
           /\ ("retry" \in DOMAIN r) <=> (r.status = 429)
           /\ ("error" \in DOMAIN r) <=> (r.status = 429)

\* A call on the default route was rejected at the largest limit
C14_Witness ==
    /\ Counted
    /\ limit = MaxLimit
    /\ result[1].key = BaseKey
    /\ result[1].response.status = 429
    /\ result[1].response.retry > 0

ExpectedKey(ns, ip, suffix) ==
    LET base == IF ns # <<>> THEN ns \o Colon \o ip ELSE ip
    IN IF suffix # UNDEF THEN base \o Colon \o suffix ELSE base

\* The namespace the engine was configured with: the default when the
\* option is left out
ConfiguredNamespace ==
    IF options.namespace = UNDEF THEN DEFAULT_NAMESPACE
    ELSE options.namespace

StingySuffix == <<"p","o","s","t",":","/","a">>

\* C16, as stated: every call is counted under namespace:address when the
\* configured namespace is not empty and under the address alone when it is
\* empty, with :suffix appended for a request of a counted rule.
C16_KeyFormat ==
    \A p \in Procs :
        pc[p] # "idle" =>
            key[p] = ExpectedKey(ConfiguredNamespace, req[p].ip,
                                 IF Overriding(req[p]) THEN StingySuffix
                                 ELSE UNDEF)

\* reset() returned in the last step, and did not throw
WasReset == result # Null /\ "reset" \in DOMAIN result[1].response

\* C17: reset(key) returns true exactly when the key existed, and the key is
\* gone afterwards, so that getRequestCount(key) gives null; the next
\* counted call for the key is answered as a first call: status 200 and
\* remaining = limit - 1.
C17_Reset ==
    [][ /\ WasReset' =>
              /\ result'[1].response.reset = Exists(store, result'[1].key)
              /\ RedisGet(store', result'[1].key) = Null
        /\ (Counted' /\ hist.due) =>
              /\ result'[1].read = 0
              /\ result'[1].response.status = 200
              /\ result'[1].response.remaining = limit - 1 ]_vars

\* reset() returned true for a key, and the next call for the key has
\* been admitted as a first call
C17_Witness ==
    /\ Counted
    /\ hist.relieved
    /\ result[1].response.status = 200
    /\ result[1].response.remaining = limit - 1

\* C18: an engine built with autoConnect = false never has process() call
\* connect(); process() connects only when autoConnect is true or left out.
C18_NoConnectWhenOff == connects > 0 => options.autoConnect # Some(FALSE)

\* C19: a request that process() answered with 429 is not handed to the
\* next handler as a normal request: the middleware calls next with a
\* failure, or does not call it.
C19_RejectedNotForwarded ==
    (handled # Null /\ handled[1].status = 429) => handled[1].next # "plain"

\* The call of p settles with 429 in this step
Rejects(p) ==
    /\ pc[p] # "idle"
    /\ pc'[p] = "idle"
    /\ result' # Null
    /\ "status" \in DOMAIN result'[1].response
    /\ result'[1].response.status = 429

\* C20: a process() call that returns 429 issues no mutating store command,
\* whatever other calls do in between: it rejects only in its ttl step, it
\* reaches that step only from its get step, and its begin, get and ttl
\* steps leave every key's value and expiry as they were.
C20_RejectionIsReadOnly ==
    [][\A p \in Procs :
          /\ Rejects(p) => pc[p] = "ttl" /\ store' = store
          /\ (pc'[p] = "ttl" /\ pc[p] # "ttl") =>
                 pc[p] = "get" /\ store' = store
          /\ (pc'[p] = "get" /\ pc[p] # "get") =>
                 pc[p] = "idle" /\ store' = store]_vars

\* A call has been rejected while another call is in flight
C20_Witness ==
    /\ Counted
    /\ result[1].response.status = 429
    /\ \E q \in Procs : pc[q] # "idle"

\* C21, as stated: a call whose count read plus one has reached the limit
\* and for whose key the store reports a time-to-live of 0, -1 or -2
\* recreates the window (set 1, expire) and is answered with status 200 and
\* remaining = limit - 1.
C21_ExpiredRecreates ==
    [][ \A p \in Procs :
          /\ ( /\ pc[p] = "ttl"
               /\ pc'[p] # "ttl"
               /\ RedisTtl(store, key[p]) \in {0, TtlNoExpire, TtlNoKey} ) =>
                 pc'[p] = "set"
          /\ ( /\ pc[p] = "expire"
               /\ result' # Null
               /\ requestCount[p] > 0 ) =>
                 /\ result'[1].response.status = 200
                 /\ result'[1].response.remaining = lim[p] - 1
                 /\ Exists(store', key[p])
                 /\ store'[key[p]].val = 1 ]_vars

\* getTimeLeft() returned in the last step, and did not throw
TimeLeftAsked == result # Null /\ "timeLeft" \in DOMAIN result[1].response

\* C22, as stated: getTimeLeft(key, default) returns the time-to-live the
\* store reports for the key, in milliseconds, when the key has an expiry,
\* and default when the store reports no expiry or no key.
C22_TimeLeft ==
    TimeLeftAsked =>
        result[1].response.timeLeft =
            IF RedisTtl(store, result[1].key) \in {TtlNoExpire, TtlNoKey}
            THEN timeframe
            ELSE RedisTtl(store, result[1].key) * MsPerSec

\* C23, as stated: setNewRequestCount stores count 1 and the expiry in one
\* step of the store: no key is ever stored with a count and without an
\* expiry, neither between two commands of a call, where another call can
\* read it, nor after a call has settled.
C23_CreatedWithExpiry ==
    \A k \in DOMAIN store : store[k].left # NoExpire

\* C24, as stated: incrementRequestCount adds 1 to the stored count in one
\* step; an increment that finds no stored value recreates the window
\* through setNewRequestCount (set 1, expire), so that the key holds count 1
\* with an expiry.
C24_IncrementFallsBack ==
    [][ \A p \in Procs :
          (pc[p] = "incr" /\ pc'[p] # "incr") =>
             IF Exists(store, key[p])
             THEN /\ store'[key[p]].val = store[key[p]].val + 1
                  /\ store'[key[p]].left = store[key[p]].left
             ELSE pc'[p] = "fallbackSet" ]_vars

\* The call of p read its key as absent and is about to create the window
Creating(p) == pc[p] = "set" /\ requestCount[p] = 0

\* C25, as stated: of the calls that read a key as absent and then create
\* the window the first wins: a create that finds the key stored leaves its
\* count and its expiry as they are.
C25_FirstCreateWins ==
    [][ \A p \in Procs :
          (Creating(p) /\ pc'[p] # "set" /\ Exists(store, key[p])) =>
              Stored(store', key[p]) = Stored(store, key[p]) ]_vars

\* The request asks for the path of the ignored rule, with or without a
\* trailing slash, by GET
AsksIgnored(request) ==
    /\ Stripped(request.url) = IgnorePath
    /\ toLowerCase(request.method) = GetLower

C27_SentinelIdentity ==
    /\ \A p \in Procs :
          (pc[p] # "idle" /\ req[p].ip = UNDEF) =>
              key[p] = ExpectedKey(namespace, InvalidIp,
                                   IF Overriding(req[p]) THEN StingySuffix
                                   ELSE UNDEF)
    /\ ~Failed

\* The request carries neither url nor originalUrl
NoPath(request) == ~Truthy(request.url) /\ ~Truthy(request.originalUrl)

\* C28: a request that carries neither url nor originalUrl matches no
\* custom rule, whatever its method: its call does not fail, is not answered
\* without counting, and is counted under the base key with the engine's
\* limit and timeframe.
C28_NoPathNoMatch ==
    /\ \A p \in Procs :
          (pc[p] # "idle" /\ NoPath(req[p])) =>
              /\ key[p] = BaseKey
              /\ lim[p] = limit
              /\ tf[p] = timeframe
    /\ (result # Null /\ NoPath(result[1].request)) =>
           /\ Counted
           /\ result[1].key = BaseKey
           /\ result[1].response.limit = limit
           /\ result[1].response.timeframe = timeframe

\* A POST request without path was rejected under the base key, while the
\* engine has a rule for POST
C28_Witness ==
    /\ Counted
    /\ NoPath(result[1].request)
    /\ result[1].request.method = PostUpper
    /\ result[1].response.status = 429
    /\ result[1].key = BaseKey

\* The rules of the configuration that apply to a request, and the first of
\* them in list order (0 when none applies)
ApplyingRules(request) ==
    {i \in DOMAIN options.customRoutes :
        Applies(options.customRoutes[i], request)}

FirstRule(request) ==
    IF ApplyingRules(request) = {} THEN 0
    ELSE CHOOSE i \in ApplyingRules(request) :
            \A j \in ApplyingRules(request) : i <= j

\* What a rule decides for a request of address ip, in the words of the
\* specification
RuleMethod(rule) == IF "method" \in DOMAIN rule THEN rule.method ELSE GetLower

RuleDecision(rule, ip) ==
    IF IgnoreRule(rule)
    THEN [kind |-> "bare"]
    ELSE [kind |-> "counted",
          key |-> ExpectedKey(namespace, ip,
                     toLowerCase(RuleMethod(rule)) \o Colon
                         \o toLowerCase(rule.path)),
          limit |-> IF "limit" \in DOMAIN rule THEN rule.limit ELSE limit,
          timeframe |-> IF "timeframe" \in DOMAIN rule THEN rule.timeframe
                        ELSE timeframe]

\* What the call of p was decided to be
DecisionOf(p) ==
    [kind |-> "counted", key |-> key[p], limit |-> lim[p],
     timeframe |-> tf[p]]

\* C29: when several rules match a request the first one in list order
\* decides: the call is answered without counting exactly when that rule is
\* ignored, and is otherwise counted under that rule's key with that rule's
\* limit and timeframe; no step of the call changes another key.
C29_FirstMatchWins ==
    [][ /\ \A p \in Procs :
              (pc[p] # "idle" /\ pc'[p] # pc[p] /\ FirstRule(req[p]) # 0) =>
                 /\ DecisionOf(p) =
                       RuleDecision(options.customRoutes[FirstRule(req[p])],
                                    req[p].ip)
                 /\ \A k \in (DOMAIN store \cup DOMAIN store') \ {key[p]} :
                       Stored(store', k) = Stored(store, k)
        /\ ( /\ result' # Null
             /\ result'[1].response = [status |-> 200] ) =>
                /\ FirstRule(result'[1].request) # 0
                /\ IgnoreRule(options.customRoutes[
                                  FirstRule(result'[1].request)])
                /\ store' = store ]_vars

\* A request that a counted rule and, later in the list, an ignored rule
\* match was rejected
C29_Witness ==
    /\ Counted
    /\ Cardinality(ApplyingRules(result[1].request)) > 1
    /\ ~IgnoreRule(options.customRoutes[FirstRule(result[1].request)])
    /\ result[1].response.status = 429

\* The keys of the rules of SpecRules, written out
PostKey == BaseKey \o <<":","p","o","s","t",":","/","a">>
UpperKey == BaseKey \o <<":","g","e","t",":","/","a">>

\* C30: a request matched by a rule that is not ignored is counted with the
\* rule's limit and timeframe where the rule has them and the engine's where
\* it has not, under the key with the suffix method:path in lower case: the
\* rule for POST and /a with a limit only, the rule for /A with a timeframe
\* only and no method.
C30_RuleValues ==
    \A p \in Procs :
        pc[p] # "idle" =>
            /\ ( /\ req[p].url = StingyPath
                 /\ toLowerCase(req[p].method) = PostLower ) =>
                   /\ key[p] = PostKey
                   /\ lim[p] = StingyLimit
                   /\ tf[p] = timeframe
            /\ ( /\ req[p].url = UpperPath
                 /\ toLowerCase(req[p].method) = GetLower ) =>
                   /\ key[p] = UpperKey
                   /\ lim[p] = limit
                   /\ tf[p] = StingyTimeframe

\* Calls under both rules have been counted: one is rejected under the rule
\* without limit while the key of the other rule is stored
C30_Witness ==
    /\ Counted
    /\ result[1].key = UpperKey
    /\ result[1].response.status = 429
    /\ result[1].response.limit = limit
    /\ result[1].response.timeframe = StingyTimeframe
    /\ Exists(store, PostKey)

\* C34, as stated: every key in the store has an expiry, and one that is no
\* longer than the window of the key; looked at when no call is between two
\* of its commands, so that what is found stays.
C34_EveryKeyExpires ==
    NoneInFlight =>
        \A k \in DOMAIN store :
            /\ store[k].left # NoExpire
            /\ store[k].left <= timeframe * TicksPerSec

\* C37, as stated: a call that is answered by the whitelist or by an ignored
\* rule makes no attempt to connect and sends no command to the store.
C37_BareTouchesNothing ==
    [][ (result' # Null /\ result'[1].response = [status |-> 200]) =>
            /\ connects' = connects
            /\ isOpen' = isOpen
            /\ store' = store ]_vars

\* C38: on every 429 result retry is a whole number of seconds, at least 1
\* and at most the timeframe the call was counted with, whatever
\* time-to-live the store reported.
C38_RetryWithinWindow ==
    (Counted /\ result[1].response.status = 429) =>
        /\ result[1].response.retry \in Int
        /\ result[1].response.retry >= 1
        /\ result[1].response.retry <= result[1].timeframe

\* A call under a rule with a longer timeframe was rejected with a retry of
\* more than a second
C38_Witness ==
    /\ Counted
    /\ result[1].response.status = 429
    /\ result[1].timeframe = StingyTimeframe
    /\ result[1].response.retry > 1

\* C32, as stated: a call that is admitted sends at most two commands to the
\* store, the read and the increment, and the first call of a window sends
\* at most two, the read and one create command.
C32_TwoCommands ==
    (Counted /\ result[1].response.status = 200) => hist.commands <= 2

\* C35, as stated: a call is rejected for a key only if at least limit - 1
\* requests have been charged to the key since its present window was
\* created, under any interleaving.
C35_RejectedOnOwnWindow ==
    (Counted /\ result[1].response.status = 429) =>
        hist.credited >= limit - 1

\* C36: no request is counted twice. The count stored for a key is never
\* more than the number of requests charged to it since it was last created,
\* every call that has sent its counting command is answered with status
\* 200, and a rejected call has sent none; under any interleaving.
C36_NoDoubleCredit ==
    [][ /\ Exists(store', WatchedKey) =>
              store'[WatchedKey].val <= hist'.credited
        /\ \A p \in Procs :
              /\ (pc[p] \in {"expire", "incr", "fallbackExpire"}
                    /\ result' # Null /\ pc'[p] = "idle") =>
                     result'[1].response.status = 200
              /\ Rejects(p) => pc[p] = "ttl" ]_vars

\* Three calls have been charged to the key in one window, two of them
\* interleaved, and the key holds count 3
C36_Witness ==
    /\ Exists(store, WatchedKey)
    /\ store[WatchedKey].val = MaxLimit
    /\ hist.credited = MaxLimit
    /\ \E p \in Procs : pc[p] # "idle"

\* A store operation called by the application settled in the last step
Answered == result # Null /\ result[1].request = NoRequest

\* C31: each of the five store operations, called with no key or with the
\* empty key, fails with the error 'Invalid key' and sends no command: the
\* store is as it was; called with a key it does not fail with that error.
C31_InvalidKeyFails ==
    [][ Answered' =>
          IF Truthy(result'[1].key)
          THEN result'[1].response # Thrown("key")
          ELSE /\ result'[1].response = Thrown("key")
               /\ store' = store ]_vars

\* C39: every process() call eventually resolves or rejects when the store
\* answers every command: a call that is under way gets back to rest.
C39_EveryCallSettles ==
    \A p \in FairProcs : (pc[p] # "idle") ~> (pc[p] = "idle")

\* The three rate-limit headers as the result gives them
HeadersFrom(r) ==
    [limit |-> IF "limit" \in DOMAIN r THEN Some(r.limit) ELSE UNDEF,
     remaining |-> IF "remaining" \in DOMAIN r THEN Some(r.remaining)
                   ELSE UNDEF,
     retry |-> IF "retry" \in DOMAIN r THEN Some(r.retry) ELSE UNDEF]

C40_OwnOptionsApply ==
    \A p \in Procs :
        pc[p] # "idle" =>
            /\ lim[p] = ctorLimit(options.limit)
            /\ tf[p] = ctorTimeframe(options.timeframe)

====
